---- MODULE Spec2Model ----
(***************************************************************************)
(* Model of the two programs of the repository:                            *)
(*   project5.cpp             (frequency ranking and encoding)             *)
(*   project5_decompress.cpp  (the same, followed by decoding)             *)
(* Characters are byte values, strings are sequences of byte values.       *)
(***************************************************************************)
EXTENDS Integers, Sequences, FiniteSets, TLC

VARIABLES
    program,        \* which of the two programs runs
    run,            \* 1 for the first run on the input, 2 for a second run
    firstTable,     \* <<sortedTokens, tokenPosition>> of the first run
    inputContent,   \* string inputContent
    pc,             \* position in main
    idx,            \* read position of inputStream / secondPass
    token,          \* string token
    tokenFrequency, \* unordered_map<string,int> tokenFrequency
    sortedTokens,   \* vector<pair<string,int>> sortedTokens
    tokenPosition,  \* map<string,int> tokenPosition
    encodedText,    \* vector<int> encodedText
    tokens,         \* vector<string> tokens
    i,              \* loop index of the decoding loop
    decodedText,    \* stringstream decodedText
    cout,           \* characters written to standard output
    cerr,           \* messages written to standard error
    exitCode,       \* value returned by main (-1 while running)
    delivered1,     \* non-empty tokens accepted by addToken, in order
    delivered2      \* non-empty tokens accepted by processToken, in order

vars == <<program, run, firstTable, inputContent, pc, idx, token,
          tokenFrequency, sortedTokens, tokenPosition, encodedText, tokens,
          i, decodedText, cout, cerr, exitCode, delivered1, delivered2>>

(***************************************************************************)
(* Bounds of the model.                                                    *)
(***************************************************************************)
MaxLen == 5
MaxCodeLen == 3
MaxTableLen == 2

Alphabet == {32, 10, 97, 98}

\* "the cat sat on the mat the cat ran"
ExampleInput ==
    <<116,104,101, 32, 99,97,116, 32, 115,97,116, 32, 111,110, 32,
      116,104,101, 32, 109,97,116, 32, 116,104,101, 32, 99,97,116, 32,
      114,97,110>>

BoundedInputs == UNION {[1..n -> Alphabet] : n \in 0..MaxLen}

Inputs == BoundedInputs \cup {ExampleInput}

Programs == {"project5", "project5_decompress"}

EmptyMap == [t \in {} |-> 0]

Min(a, b) == IF a <= b THEN a ELSE b

(***************************************************************************)
(* Library functions used by the programs.                                 *)
(***************************************************************************)
\* isspace that knows the blank only
isspaceBlankOnly(c) == c = 32

\* isspace in the "C" locale: space, \t, \n, \v, \f, \r
isspace(c) == c \in {32, 9, 10, 11, 12, 13}

\* std::string::compare: the first differing byte decides, then the lengths
StringCompare(a, b) ==
    LET n == Min(Len(a), Len(b))
        diff == {k \in 1..n : a[k] # b[k]}
    IN  IF diff # {}
        THEN LET k == CHOOSE k \in diff : \A j \in diff : k <= j
             IN  IF a[k] < b[k] THEN -1 ELSE 1
        ELSE IF Len(a) < Len(b) THEN -1
        ELSE IF Len(a) > Len(b) THEN 1
        ELSE 0

\* operator< of std::string
StringLess(a, b) == StringCompare(a, b) < 0

\* operator<< of an int: its decimal digits
RECURSIVE Digits(_)
Digits(n) == IF n < 10 THEN <<48 + n>> ELSE Digits(n \div 10) \o <<48 + (n % 10)>>

Decimal(n) == IF n < 0 THEN <<45>> \o Digits(-n) ELSE Digits(n)

(***************************************************************************)
(* Functions of the programs.                                              *)
(***************************************************************************)
\* addToken without the test for an empty token
addTokenUnguarded(tf, tok) ==
    IF tok \in DOMAIN tf
    THEN [tf EXCEPT ![tok] = @ + 1]
    ELSE tf @@ (tok :> 1)

addToken(tf, tok) ==
    IF tok # <<>>
    THEN IF tok \in DOMAIN tf
         THEN [tf EXCEPT ![tok] = @ + 1]
         ELSE tf @@ (tok :> 1)
    ELSE tf

\* processToken that appends a rank only the first time it is met
processTokenOncePerRank(tp, tok, enc) ==
    IF tok # <<>>
    THEN IF tok \in DOMAIN tp
         THEN [enc |-> IF \E k \in 1..Len(enc) : enc[k] = tp[tok]
                       THEN enc ELSE Append(enc, tp[tok]),
               err |-> <<>>]
         ELSE [enc |-> enc, err |-> <<[kind |-> "token_not_found", arg |-> tok]>>]
    ELSE [enc |-> enc, err |-> <<>>]

\* the new encodedText and the messages written to cerr
processToken(tp, tok, enc) ==
    IF tok # <<>>
    THEN IF tok \in DOMAIN tp
         THEN [enc |-> Append(enc, tp[tok]), err |-> <<>>]
         ELSE [enc |-> enc, err |-> <<[kind |-> "token_not_found", arg |-> tok]>>]
    ELSE [enc |-> enc, err |-> <<>>]

\* comparator without the tie-break: frequency only
compFrequencyOnly(a, b) == a[2] > b[2]

\* comparator whose tie-break is reversed
compTieDescending(a, b) ==
    IF a[2] # b[2]
    THEN a[2] > b[2]
    ELSE StringLess(b[1], a[1])

\* the comparator handed to std::sort; a and b are <<token, count>> pairs
comp(a, b) ==
    IF a[2] # b[2]
    THEN a[2] > b[2]
    ELSE StringLess(a[1], b[1])

\* the orders in which the entries of the unordered_map may be enumerated
RECURSIVE Orders(_)
Orders(S) ==
    IF S = {} THEN {<<>>}
    ELSE UNION {{<<x>> \o p : p \in Orders(S \ {x})} : x \in S}

Enumerations(tf) == Orders({<<t, tf[t]>> : t \in DOMAIN tf})

Range(s) == {s[k] : k \in 1..Len(s)}

\* std::sort: every arrangement of the elements in which no element is
\* preceded by one it compares less than
RECURSIVE SortedArrangements(_)
SortedArrangements(S) ==
    IF S = {} THEN {<<>>}
    ELSE UNION {{<<x>> \o p : p \in SortedArrangements(S \ {x})} :
                    x \in {m \in S : \A y \in S : ~comp(y, m)}}

SortResults(v) == SortedArrangements(Range(v))

\* the loop that fills tokenPosition, position starting at 1
RECURSIVE AssignPositions(_, _, _)
AssignPositions(tp, st, position) ==
    IF st = <<>> THEN tp
    ELSE AssignPositions(
            IF st[1][1] \in DOMAIN tp
            THEN [tp EXCEPT ![st[1][1]] = position]
            ELSE tp @@ (st[1][1] :> position),
            Tail(st), position + 1)

\* position starting at 0
MapPositionsFromZero(st) == AssignPositions(EmptyMap, st, 0)

\* position incremented before it is stored
MapPositionsPreIncrement(st) == AssignPositions(EmptyMap, st, 2)

MapPositions(st) == AssignPositions(EmptyMap, st, 1)

\* tokens filled in reverse order
CollectTokensReversed(st) == [k \in 1..Len(st) |-> st[Len(st) + 1 - k][1]]

\* the loop that fills the vector tokens
CollectTokens(st) == [k \in 1..Len(st) |-> st[k][1]]

\* the loops that print a list, each element followed by a space
RECURSIVE PrintTokenList(_)
PrintTokenList(st) ==
    IF st = <<>> THEN <<>> ELSE st[1][1] \o <<32>> \o PrintTokenList(Tail(st))

RECURSIVE PrintCodeList(_)
PrintCodeList(enc) ==
    IF enc = <<>> THEN <<>> ELSE Decimal(enc[1]) \o <<32>> \o PrintCodeList(Tail(enc))

Stars == <<42, 42, 42, 42, 42, 42, 42, 42, 42, 42>>

(***************************************************************************)
(* main, step by step.                                                     *)
(***************************************************************************)
Start(p, in) ==
    /\ program = p
    /\ inputContent = in
    /\ pc = "pass1"
    /\ idx = 0
    /\ token = <<>>
    /\ tokenFrequency = EmptyMap
    /\ sortedTokens = <<>>
    /\ tokenPosition = EmptyMap
    /\ encodedText = <<>>
    /\ tokens = <<>>
    /\ i = 0
    /\ decodedText = <<>>
    /\ cout = <<>>
    /\ cerr = <<>>
    /\ exitCode = -1
    /\ delivered1 = <<>>
    /\ delivered2 = <<>>

Init ==
    /\ run = 1
    /\ firstTable = <<>>
    /\ \E p \in Programs, in \in Inputs : Start(p, in)

\* first pass, one character
Pass1Char ==
    /\ pc = "pass1"
    /\ idx < Len(inputContent)
    /\ LET aChar == inputContent[idx + 1]
       IN  IF isspace(aChar)
           THEN /\ tokenFrequency' = addToken(tokenFrequency, token)
                /\ delivered1' = IF token # <<>> THEN Append(delivered1, token)
                                 ELSE delivered1
                /\ token' = <<>>
           ELSE /\ token' = Append(token, aChar)
                /\ UNCHANGED <<tokenFrequency, delivered1>>
    /\ idx' = idx + 1
    /\ UNCHANGED <<program, run, firstTable, inputContent, pc, sortedTokens,
                   tokenPosition, encodedText, tokens, i, decodedText, cout,
                   cerr, exitCode, delivered2>>

\* first pass, end of the stream: the last token
Pass1End ==
    /\ pc = "pass1"
    /\ idx = Len(inputContent)
    /\ tokenFrequency' = addToken(tokenFrequency, token)
    /\ delivered1' = IF token # <<>> THEN Append(delivered1, token) ELSE delivered1
    /\ pc' = "sort"
    /\ UNCHANGED <<program, run, firstTable, inputContent, idx, token,
                   sortedTokens, tokenPosition, encodedText, tokens, i,
                   decodedText, cout, cerr, exitCode, delivered2>>

\* copy the map into the vector, in the map's order, and sort it
SortTokens ==
    /\ pc = "sort"
    /\ \E v \in Enumerations(tokenFrequency) :
          \E s \in SortResults(v) : sortedTokens' = s
    /\ pc' = "position"
    /\ UNCHANGED <<program, run, firstTable, inputContent, idx, token,
                   tokenFrequency, tokenPosition, encodedText, tokens, i,
                   decodedText, cout, cerr, exitCode, delivered1, delivered2>>

\* fill tokenPosition
AssignRanks ==
    /\ pc = "position"
    /\ tokenPosition' = MapPositions(sortedTokens)
    /\ pc' = IF program = "project5" THEN "print_tokens" ELSE "pass2"
    /\ UNCHANGED <<program, run, firstTable, inputContent, idx, token,
                   tokenFrequency, sortedTokens, encodedText, tokens, i,
                   decodedText, cout, cerr, exitCode, delivered1, delivered2>>

\* project5 only: print the sorted tokens and the separator
PrintTokens ==
    /\ pc = "print_tokens"
    /\ cout' = cout \o PrintTokenList(sortedTokens) \o <<10>> \o Stars \o <<10>>
    /\ pc' = "pass2"
    /\ UNCHANGED <<program, run, firstTable, inputContent, idx, token,
                   tokenFrequency, sortedTokens, tokenPosition, encodedText,
                   tokens, i, decodedText, cerr, exitCode, delivered1,
                   delivered2>>

\* token.clear() and the new stream over inputContent
BeginPass2 ==
    /\ pc = "pass2"
    /\ token' = <<>>
    /\ idx' = 0
    /\ pc' = "pass2_loop"
    /\ UNCHANGED <<program, run, firstTable, inputContent, tokenFrequency,
                   sortedTokens, tokenPosition, encodedText, tokens, i,
                   decodedText, cout, cerr, exitCode, delivered1, delivered2>>

\* second pass, one character
Pass2Char ==
    /\ pc = "pass2_loop"
    /\ idx < Len(inputContent)
    /\ LET aChar == inputContent[idx + 1]
           r == processToken(tokenPosition, token, encodedText)
       IN  IF isspace(aChar)
           THEN /\ encodedText' = r.enc
                /\ cerr' = cerr \o r.err
                /\ delivered2' = IF token # <<>> THEN Append(delivered2, token)
                                 ELSE delivered2
                /\ token' = <<>>
           ELSE /\ token' = Append(token, aChar)
                /\ UNCHANGED <<encodedText, cerr, delivered2>>
    /\ idx' = idx + 1
    /\ UNCHANGED <<program, run, firstTable, inputContent, pc, tokenFrequency,
                   sortedTokens, tokenPosition, tokens, i, decodedText, cout,
                   exitCode, delivered1>>

\* second pass, end of the stream: the last token
Pass2End ==
    /\ pc = "pass2_loop"
    /\ idx = Len(inputContent)
    /\ LET r == processToken(tokenPosition, token, encodedText)
       IN  /\ encodedText' = r.enc
           /\ cerr' = cerr \o r.err
    /\ delivered2' = IF token # <<>> THEN Append(delivered2, token) ELSE delivered2
    /\ pc' = IF program = "project5" THEN "print_codes" ELSE "tokens"
    /\ UNCHANGED <<program, run, firstTable, inputContent, idx, token,
                   tokenFrequency, sortedTokens, tokenPosition, tokens, i,
                   decodedText, cout, exitCode, delivered1>>

\* project5 only: print the encoded text and return 0
PrintCodes ==
    /\ pc = "print_codes"
    /\ cout' = cout \o PrintCodeList(encodedText) \o <<10>>
    /\ exitCode' = 0
    /\ pc' = "exit"
    /\ UNCHANGED <<program, run, firstTable, inputContent, idx, token,
                   tokenFrequency, sortedTokens, tokenPosition, encodedText,
                   tokens, i, decodedText, cerr, delivered1, delivered2>>

\* project5_decompress only: fill the vector tokens
BuildTokens ==
    /\ pc = "tokens"
    /\ tokens' = CollectTokens(sortedTokens)
    /\ i' = 0
    /\ pc' = "decode"
    /\ UNCHANGED <<program, run, firstTable, inputContent, idx, token,
                   tokenFrequency, sortedTokens, tokenPosition, encodedText,
                   decodedText, cout, cerr, exitCode, delivered1, delivered2>>

\* decoding loop that reports an invalid position and goes on
DecodeStepSkipInvalid ==
    /\ pc = "decode"
    /\ i < Len(encodedText)
    /\ LET position == encodedText[i + 1]
       IN  IF position > 0 /\ position <= Len(tokens)
           THEN /\ decodedText' = decodedText \o tokens[position] \o
                                    (IF i < Len(encodedText) - 1 THEN <<32>> ELSE <<>>)
                /\ UNCHANGED cerr
           ELSE /\ cerr' = Append(cerr, [kind |-> "invalid_position", arg |-> position])
                /\ UNCHANGED decodedText
    /\ i' = i + 1
    /\ UNCHANGED <<program, run, firstTable, inputContent, pc, idx, token,
                   tokenFrequency, sortedTokens, tokenPosition, encodedText,
                   tokens, cout, exitCode, delivered1, delivered2>>

\* project5_decompress only: one iteration of the decoding loop
DecodeStep ==
    /\ pc = "decode"
    /\ i < Len(encodedText)
    /\ LET position == encodedText[i + 1]
       IN  IF position > 0 /\ position <= Len(tokens)
           THEN /\ decodedText' = decodedText \o tokens[position] \o
                                    (IF i < Len(encodedText) - 1 THEN <<32>> ELSE <<>>)
                /\ i' = i + 1
                /\ UNCHANGED <<pc, cerr, exitCode>>
           ELSE /\ cerr' = Append(cerr, [kind |-> "invalid_position", arg |-> position])
                /\ exitCode' = 1
                /\ pc' = "exit"
                /\ UNCHANGED <<decodedText, i>>
    /\ UNCHANGED <<program, run, firstTable, inputContent, idx, token,
                   tokenFrequency, sortedTokens, tokenPosition, encodedText,
                   tokens, cout, delivered1, delivered2>>

\* project5_decompress only: print the decoded text and return 0
PrintDecoded ==
    /\ pc = "decode"
    /\ i = Len(encodedText)
    /\ cout' = cout \o decodedText \o <<10>>
    /\ exitCode' = 0
    /\ pc' = "exit"
    /\ UNCHANGED <<program, run, firstTable, inputContent, idx, token,
                   tokenFrequency, sortedTokens, tokenPosition, encodedText,
                   tokens, i, decodedText, cerr, delivered1, delivered2>>

Next ==
    \/ Pass1Char
    \/ Pass1End
    \/ SortTokens
    \/ AssignRanks
    \/ PrintTokens
    \/ BeginPass2
    \/ Pass2Char
    \/ Pass2End
    \/ PrintCodes
    \/ BuildTokens
    \/ DecodeStep
    \/ PrintDecoded

Spec == Init /\ [][Next]_vars


(***************************************************************************)
(* A second run of the same program on the same input, after the first     *)
(* has ended; the first run's rank table is kept for comparison.           *)
(***************************************************************************)
Rerun ==
    /\ pc = "exit"
    /\ run = 1
    /\ run' = 2
    /\ firstTable' = <<sortedTokens, tokenPosition>>
    /\ pc' = "pass1"
    /\ idx' = 0
    /\ token' = <<>>
    /\ tokenFrequency' = EmptyMap
    /\ sortedTokens' = <<>>
    /\ tokenPosition' = EmptyMap
    /\ encodedText' = <<>>
    /\ tokens' = <<>>
    /\ i' = 0
    /\ decodedText' = <<>>
    /\ cout' = <<>>
    /\ cerr' = <<>>
    /\ exitCode' = -1
    /\ delivered1' = <<>>
    /\ delivered2' = <<>>
    /\ UNCHANGED <<program, inputContent>>

NextTwoRuns ==
    \/ Next
    \/ Rerun

SpecTwoRuns == Init /\ [][NextTwoRuns]_vars

(***************************************************************************)
(* The encoding pass on its own: the second pass over an input, against    *)
(* any token->rank lookup.                                                 *)
(***************************************************************************)
TokenPool == {<<97>>, <<98>>, <<97, 98>>}

\* ranked lists of distinct tokens, each with a count of 1
Tables ==
    {[k \in 1..Len(o) |-> <<o[k], 1>>] :
        o \in {p \in UNION {Orders(S) : S \in SUBSET TokenPool} : Len(p) <= MaxTableLen}}

InitEncoder ==
    /\ run = 1
    /\ firstTable = <<>>
    /\ program = "project5"
    /\ inputContent \in BoundedInputs
    /\ pc = "pass2"
    /\ idx = 0
    /\ token = <<>>
    /\ tokenFrequency = EmptyMap
    /\ sortedTokens \in Tables
    /\ tokenPosition = MapPositions(sortedTokens)
    /\ encodedText = <<>>
    /\ tokens = <<>>
    /\ i = 0
    /\ decodedText = <<>>
    /\ cout = <<>>
    /\ cerr = <<>>
    /\ exitCode = -1
    /\ delivered1 = <<>>
    /\ delivered2 = <<>>

NextEncoder ==
    \/ BeginPass2
    \/ Pass2Char
    \/ Pass2End
    \/ PrintCodes

SpecEncoder == InitEncoder /\ [][NextEncoder]_vars

(***************************************************************************)
(* The decoding step on its own: any code sequence against a rank table.   *)
(***************************************************************************)
CodeSequences == UNION {[1..n -> (-1)..(MaxTableLen + 1)] : n \in 0..MaxCodeLen}

InitDecoder ==
    /\ run = 1
    /\ firstTable = <<>>
    /\ program = "project5_decompress"
    /\ inputContent = <<>>
    /\ pc = "tokens"
    /\ idx = 0
    /\ token = <<>>
    /\ tokenFrequency = EmptyMap
    /\ sortedTokens \in Tables
    /\ tokenPosition = MapPositions(sortedTokens)
    /\ encodedText \in CodeSequences
    /\ tokens = <<>>
    /\ i = 0
    /\ decodedText = <<>>
    /\ cout = <<>>
    /\ cerr = <<>>
    /\ exitCode = -1
    /\ delivered1 = <<>>
    /\ delivered2 = <<>>

NextDecoder ==
    \/ BuildTokens
    \/ DecodeStep
    \/ PrintDecoded

SpecDecoder == InitDecoder /\ [][NextDecoder]_vars


(***************************************************************************)
(* Vocabulary of the properties.                                           *)
(***************************************************************************)
WhitespaceChars == {9, 10, 11, 12, 13, 32}

IsWs(c) == c \in WhitespaceChars

\* the positions at which a maximal run of non-whitespace characters starts
RunStarts(in) == {k \in 1..Len(in) : ~IsWs(in[k]) /\ (k = 1 \/ IsWs(in[k - 1]))}

RunEnd(in, s) ==
    CHOOSE e \in s..Len(in) :
        /\ \A j \in s..e : ~IsWs(in[j])
        /\ e = Len(in) \/ IsWs(in[e + 1])

\* the maximal runs of non-whitespace characters, in input order
MaximalRuns(in) ==
    LET S == RunStarts(in)
    IN  [n \in 1..Cardinality(S) |->
            LET s == CHOOSE s \in S : Cardinality({x \in S : x < s}) = n - 1
            IN  SubSeq(in, s, RunEnd(in, s))]

T == MaximalRuns(inputContent)

Distinct == Range(T)

D == Cardinality(Distinct)

Count(t) == Cardinality({k \in 1..Len(T) : T[k] = t})

\* a is byte-wise lexicographically smaller than b
LexBefore(a, b) ==
    \E k \in 1..Len(b) :
        /\ k - 1 <= Len(a)
        /\ \A j \in 1..(k - 1) : a[j] = b[j]
        /\ k = Len(a) + 1 \/ a[k] < b[k]

RECURSIVE JoinWithSpaces(_)
JoinWithSpaces(ts) ==
    IF ts = <<>> THEN <<>>
    ELSE IF Len(ts) = 1 THEN ts[1]
    ELSE ts[1] \o <<32>> \o JoinWithSpaces(Tail(ts))

IsPrefix(s, t) == Len(s) <= Len(t) /\ \A k \in 1..Len(s) : s[k] = t[k]

AfterPass1 == pc # "pass1"

AfterRanking == pc \in {"print_tokens", "pass2", "pass2_loop", "print_codes",
                        "tokens", "decode", "exit"}

AfterPass2 == pc \in {"print_codes", "tokens", "decode", "exit"}

InvalidRank(r) == r <= 0 \/ r > Len(sortedTokens)

InvalidAt == {k \in 1..Len(encodedText) : InvalidRank(encodedText[k])}

FirstInvalid == CHOOSE k \in InvalidAt : \A j \in InvalidAt : k <= j

(***************************************************************************)
(* C1. Round trip: when project5_decompress ends, it has succeeded, the    *)
(* token decoded at each position of the code sequence is the token of     *)
(* the input at that position, the decoded sequence is as long as the      *)
(* input token sequence, and the decoded text is those tokens in order.    *)
(***************************************************************************)
C1_RoundTrip ==
    (program = "project5_decompress" /\ pc = "exit") =>
        /\ exitCode = 0
        /\ Len(encodedText) = Len(T)
        /\ \A k \in 1..Len(T) :
              /\ encodedText[k] \in 1..Len(tokens)
              /\ tokens[encodedText[k]] = T[k]
        /\ decodedText = JoinWithSpaces(T)
        /\ cout = decodedText \o <<10>>

C1_Witness ==
    /\ program = "project5_decompress"
    /\ pc = "exit"
    /\ D >= 2
    /\ Len(T) > D

(***************************************************************************)
(* C2. Length preservation: after the encoding pass the code sequence has  *)
(* one rank per token occurrence, in order; its length is the number of    *)
(* tokens of the input.                                                    *)
(***************************************************************************)
C2_LengthPreservation ==
    AfterPass2 =>
        /\ Len(encodedText) = Len(T)
        /\ \A k \in 1..Len(T) :
              /\ T[k] \in DOMAIN tokenPosition
              /\ encodedText[k] = tokenPosition[T[k]]

C2_Witness ==
    /\ program = "project5"
    /\ pc = "exit"
    /\ D >= 2
    /\ Len(encodedText) > D

(***************************************************************************)
(* C3. Ranking order: a distinct token a has a smaller rank than b exactly *)
(* when a occurs more often, or as often and a is byte-wise smaller; the   *)
(* example input gives the ranked order the, cat, mat, on, ran, sat and    *)
(* the code sequence 1 2 6 4 1 3 1 2 5.                                    *)
(***************************************************************************)
C3_RankingOrder ==
    /\ AfterRanking =>
          /\ DOMAIN tokenPosition = Distinct
          /\ \A a \in Distinct, b \in Distinct :
                a # b =>
                    ((tokenPosition[a] < tokenPosition[b]) <=>
                        \/ Count(a) > Count(b)
                        \/ Count(a) = Count(b) /\ LexBefore(a, b))
    /\ (AfterRanking /\ inputContent = ExampleInput) =>
          [k \in 1..Len(sortedTokens) |-> sortedTokens[k][1]] =
              << <<116, 104, 101>>, <<99, 97, 116>>, <<109, 97, 116>>,
                 <<111, 110>>, <<114, 97, 110>>, <<115, 97, 116>> >>
    /\ (AfterPass2 /\ inputContent = ExampleInput) =>
          encodedText = <<1, 2, 6, 4, 1, 3, 1, 2, 5>>

C3_Witness ==
    /\ pc = "exit"
    /\ inputContent = ExampleInput
    /\ Len(encodedText) = 9

(***************************************************************************)
(* C4. Rank totality: the ranks assigned to the D distinct tokens are      *)
(* exactly 1..D, one per distinct token, none used twice.                  *)
(***************************************************************************)
C4_RankTotality ==
    AfterRanking =>
        /\ DOMAIN tokenPosition = Distinct
        /\ Len(sortedTokens) = D
        /\ {tokenPosition[t] : t \in DOMAIN tokenPosition} = 1..D
        /\ \A a \in DOMAIN tokenPosition, b \in DOMAIN tokenPosition :
              tokenPosition[a] = tokenPosition[b] => a = b

C4_Witness ==
    /\ pc = "exit"
    /\ D >= 2
    /\ Len(T) > D

(***************************************************************************)
(* C5. Unresolvable token is fatal: once the encoder has been given a      *)
(* non-empty token that the lookup does not hold, an error is reported and *)
(* the run has ended in failure; the encoder never hands on a code         *)
(* sequence shorter than its token sequence.                               *)
(***************************************************************************)
C5_UnresolvableTokenFatal ==
    /\ (\E k \in 1..Len(delivered2) : delivered2[k] \notin DOMAIN tokenPosition) =>
          /\ cerr # <<>>
          /\ pc = "exit"
          /\ exitCode \notin {-1, 0}
    /\ pc \in {"print_codes", "exit"} /\ exitCode \in {-1, 0} =>
          Len(encodedText) = Len(delivered2)

(***************************************************************************)
(* C6. Invalid rank is fatal: the decoding loop never goes past a rank     *)
(* outside 1..D; it ends there with exit code 1 and a message that carries *)
(* that rank, and nothing is written to standard output, not even the      *)
(* tokens decoded before.                                                  *)
(***************************************************************************)
C6_InvalidRankFatal ==
    /\ pc = "decode" =>
          /\ cout = <<>>
          /\ \A k \in 1..i : ~InvalidRank(encodedText[k])
    /\ (pc = "exit" /\ InvalidAt # {}) =>
          /\ exitCode = 1
          /\ i = FirstInvalid - 1
          /\ cerr = <<[kind |-> "invalid_position", arg |-> encodedText[FirstInvalid]]>>
          /\ cout = <<>>
    /\ (pc = "exit" /\ InvalidAt = {}) => exitCode = 0

C6_Witness ==
    /\ pc = "exit"
    /\ exitCode = 1
    /\ i >= 1
    /\ decodedText # <<>>
    /\ encodedText[i + 1] > Len(tokens)

(***************************************************************************)
(* C7. Empty input is not an error: with no token in the input, the        *)
(* frequency map, the ranked list, the lookups, the code sequence and the  *)
(* decoded text stay empty, nothing is written to standard error, and the  *)
(* run ends with exit code 0 having printed only the empty lines and the   *)
(* separator.                                                              *)
(***************************************************************************)
C7_EmptyInput ==
    T = <<>> =>
        /\ cerr = <<>>
        /\ exitCode \in {-1, 0}
        /\ DOMAIN tokenFrequency = {}
        /\ sortedTokens = <<>>
        /\ DOMAIN tokenPosition = {}
        /\ encodedText = <<>>
        /\ tokens = <<>>
        /\ decodedText = <<>>
        /\ pc = "exit" =>
              /\ exitCode = 0
              /\ cout = IF program = "project5"
                        THEN <<10>> \o Stars \o <<10, 10>>
                        ELSE <<10>>

C7_Witness ==
    /\ pc = "exit"
    /\ program = "project5_decompress"
    /\ T = <<>>
    /\ Len(inputContent) >= 2

(***************************************************************************)
(* C8. Determinism: a second run on the same input builds the same sorted  *)
(* list and the same token->rank lookup as the first, whatever the order   *)
(* in which the frequency map was enumerated.                              *)
(***************************************************************************)
C8_Determinism ==
    /\ (run = 2 /\ pc = "position") => sortedTokens = firstTable[1]
    /\ (run = 2 /\ AfterRanking) => <<sortedTokens, tokenPosition>> = firstTable

C8_Witness ==
    /\ run = 2
    /\ pc = "exit"
    /\ \E a \in Range(sortedTokens), b \in Range(sortedTokens) :
          a # b /\ a[2] = b[2]

(***************************************************************************)
(* C9. Dual lookup consistency: in project5_decompress, once the vector    *)
(* tokens is built, tokenPosition maps t to r exactly when tokens holds t  *)
(* at rank r, and both have D entries.                                     *)
(***************************************************************************)
C9_DualLookup ==
    (program = "project5_decompress" /\ pc \in {"decode", "exit"}) =>
        /\ Cardinality(DOMAIN tokenPosition) = D
        /\ Len(tokens) = D
        /\ \A t \in DOMAIN tokenPosition \cup Range(tokens) \cup Distinct :
              \A r \in (0..(D + 1)) \cup {tokenPosition[u] : u \in DOMAIN tokenPosition} :
                 (t \in DOMAIN tokenPosition /\ tokenPosition[t] = r) <=>
                     (r \in 1..Len(tokens) /\ tokens[r] = t)

C9_Witness ==
    /\ program = "project5_decompress"
    /\ pc = "decode"
    /\ D >= 2
    /\ \E a \in Distinct, b \in Distinct : Count(a) > Count(b)

(***************************************************************************)
(* C10. Tokenizer: the tokens that the frequency pass and the encoding     *)
(* pass accept are the maximal runs of non-whitespace characters of the    *)
(* input, in input order; none is empty; the frequency map counts them.    *)
(***************************************************************************)
C10_Tokenizer ==
    /\ \A k \in 1..Len(delivered1) : delivered1[k] # <<>>
    /\ \A k \in 1..Len(delivered2) : delivered2[k] # <<>>
    /\ IsPrefix(delivered1, T)
    /\ IsPrefix(delivered2, T)
    /\ AfterPass1 =>
          /\ delivered1 = T
          /\ DOMAIN tokenFrequency = Distinct
          /\ \A t \in Distinct : tokenFrequency[t] = Count(t)
    /\ AfterPass2 => delivered2 = T

C10_Witness ==
    /\ pc = "exit"
    /\ Len(T) >= 2
    /\ IsWs(inputContent[1])
    /\ ~IsWs(inputContent[Len(inputContent)])
    /\ \E k \in 1..(Len(inputContent) - 1) :
          IsWs(inputContent[k]) /\ IsWs(inputContent[k + 1])

====
